---------------------------- MODULE Spec2Model ----------------------------
(***************************************************************************)
(* Model of sweden.py: one linear run that fetches the daily counts,       *)
(* builds the date-indexed table df, derives the roll / stable / unstable  *)
(* columns, fits an exponential per metric (plot -> fit_data), overlays    *)
(* the three peak-normalized, shifted curves and writes the image.         *)
(*                                                                         *)
(* Dates are day numbers counted from 2020-03-01 (day 0).  Floating point  *)
(* values are exact rationals [n, d] with d > 0; NaN is [n |-> 0, d |-> 0] *)
(* and +inf is [n |-> 1, d |-> 0].  All counts are non-negative.           *)
(***************************************************************************)
EXTENDS Integers, Sequences, FiniteSets, TLC

VARIABLES
    pc,         \* position of the script
    requests,   \* number of HTTP requests issued so far
    response,   \* r.json()['features'] attributes, in arrival order
    roll_days,  \* the smoothing window in use
    index,      \* df.index
    df,         \* df[metric][level], each a column aligned with index (<<>> = absent)
    end_date,   \* the stability cutoff
    popt,       \* popt[metric]: what curve_fit returned (<<>> before the fit)
    fit_in,     \* fit_in[metric]: the xdata / ydata handed to curve_fit
    col_max,    \* col_max[metric]: the peak the overlay divided by
    err,        \* the exception that ended the run, "none" otherwise
    image       \* TRUE once docs/sweden.png is written

vars == <<pc, requests, response, roll_days, index, df, end_date, popt,
          fit_in, col_max, err, image>>

-----------------------------------------------------------------------------
(* Tweakable parameters of the script, lines 28-115.                       *)

Metrics == <<"pos", "icu", "died">>

MetricSet == {"pos", "icu", "died"}

Json(m) ==
    CASE m = "pos"  -> "Totalt_antal_fall"
      [] m = "icu"  -> "Antal_intensivvardade"
      [] m = "died" -> "Antal_avlidna"

Offset(m) ==
    CASE m = "pos"  -> 7
      [] m = "icu"  -> 11
      [] m = "died" -> 17

\* '2020-03-24' as a day number counted from 2020-03-01
HUMP_DAY == 23

UNSTABLE_DAYS == 10

ROLL_DAYS == 7

Levels == {"raw", "roll", "stable", "unstable", "fit"}

-----------------------------------------------------------------------------
(* Exact arithmetic standing for the float64 arithmetic of numpy.          *)

RECURSIVE GCD(_, _)
GCD(a, b) == IF b = 0 THEN a ELSE GCD(b, a % b)

NaN == [n |-> 0, d |-> 0]

Inf == [n |-> 1, d |-> 0]

Rat(n, d) == LET g == GCD(n, d) IN [n |-> n \div g, d |-> d \div g]

Num(k) == [n |-> k, d |-> 1]

IsNaN(x) == x = NaN

Finite(x) == x.d # 0

Add(x, y) ==
    IF IsNaN(x) \/ IsNaN(y) THEN NaN
    ELSE IF ~Finite(x) \/ ~Finite(y) THEN Inf
    ELSE Rat(x.n * y.d + y.n * x.d, x.d * y.d)

Mul(x, y) ==
    IF IsNaN(x) \/ IsNaN(y) THEN NaN
    ELSE IF ~Finite(x) \/ ~Finite(y)
         THEN (IF x.n = 0 \/ y.n = 0 THEN NaN ELSE Inf)
    ELSE Rat(x.n * y.n, x.d * y.d)

Div(x, y) ==
    IF IsNaN(x) \/ IsNaN(y) THEN NaN
    ELSE IF ~Finite(y) THEN (IF Finite(x) THEN Num(0) ELSE NaN)
    ELSE IF y.n = 0 THEN (IF x.n = 0 THEN NaN ELSE Inf)
    ELSE IF ~Finite(x) THEN Inf
    ELSE Rat(x.n * y.d, x.d * y.n)

Less(x, y) ==
    /\ ~IsNaN(x) /\ ~IsNaN(y)
    /\ IF ~Finite(y) THEN Finite(x)
       ELSE Finite(x) /\ x.n * y.d < y.n * x.d

RECURSIVE Pow(_, _)
Pow(g, t) == IF t = 0 THEN Num(1) ELSE Mul(g, Pow(g, t - 1))

-----------------------------------------------------------------------------
(* pandas operations used by the script.                                   *)

RECURSIVE SumRange(_, _, _)
SumRange(s, lo, hi) ==
    IF lo > hi THEN Num(0) ELSE Add(s[lo], SumRange(s, lo + 1, hi))

\* A faulty variant of Rolling: a trailing window (center = False).
RollingTrailing(s, W) ==
    [i \in 1..Len(s) |->
        IF i - W + 1 >= 1
        THEN Div(SumRange(s, i - W + 1, i), Num(W))
        ELSE NaN]

\* Series.rolling(W, center = True).mean(): a positional window of W rows,
\* min_periods = W, placed so that (W - 1) \div 2 rows precede row i.
Rolling(s, W) ==
    LET n    == Len(s)
        off  == (W - 1) \div 2
        lo(i) == i + off - W + 1
        hi(i) == i + off
    IN  [i \in 1..n |->
            IF lo(i) >= 1 /\ hi(i) <= n
            THEN Div(SumRange(s, lo(i), hi(i)), Num(W))
            ELSE NaN]

\* Series.max(): NaN is skipped; an all-NaN (or empty) column gives NaN.
RECURSIVE MaxFrom(_, _)
MaxFrom(s, i) ==
    IF i > Len(s) THEN NaN
    ELSE LET rest == MaxFrom(s, i + 1)
         IN  IF IsNaN(s[i]) THEN rest
             ELSE IF IsNaN(rest) THEN s[i]
             ELSE IF Less(s[i], rest) THEN rest ELSE s[i]

Max(s) == MaxFrom(s, 1)

\* A faulty variant of Shift: the shift goes the other way (shift(k)).
ShiftForward(s, k) ==
    [i \in 1..Len(s) |-> IF i - k >= 1 THEN s[i - k] ELSE NaN]

\* Series.shift(-k): row i takes the value of row i + k; the last k rows
\* become NaN.  The shift counts rows, not calendar days.
Shift(s, k) ==
    [i \in 1..Len(s) |-> IF i + k <= Len(s) THEN s[i + k] ELSE NaN]

\* Series / scalar
Normalize(s, peak) == [i \in 1..Len(s) |-> Div(s[i], peak)]

\* The rows a label slice lo:hi selects on a sorted DatetimeIndex (both
\* ends inclusive).
RowsIn(idx, lo, hi) == {i \in 1..Len(idx) : lo <= idx[i] /\ idx[i] <= hi}

IsUnique(idx, rows) == \A i, j \in rows : idx[i] = idx[j] => i = j

\* df[col] = series: the series is aligned with df.index.  A series whose
\* own index differs from df.index is reindexed, which raises when the
\* series' index holds a date twice.
CanAssign(idx, rows) == rows = 1..Len(idx) \/ IsUnique(idx, rows)


\* A faulty variant of StableCol: the slice stops before the cutoff.
StableColStrict(idx, roll, cutoff) ==
    [i \in 1..Len(idx) |-> IF idx[i] < cutoff THEN roll[i] ELSE NaN]

\* df.loc[:end_date, (col, 'roll')] assigned to a new column: the rolling
\* value on the rows dated up to and including the cutoff, NaN elsewhere.
StableCol(idx, roll, cutoff) ==
    [i \in 1..Len(idx) |-> IF idx[i] <= cutoff THEN roll[i] ELSE NaN]

\* df.loc[end_date:, (col, 'roll')] assigned to a new column: the rolling
\* value on the rows dated from the cutoff (included) on, NaN elsewhere.
UnstableCol(idx, roll, cutoff) ==
    [i \in 1..Len(idx) |-> IF idx[i] >= cutoff THEN roll[i] ELSE NaN]

\* The rows of a label slice lo:hi, in table order (idx is sorted, so they
\* are consecutive).
RowSeq(idx, lo, hi) ==
    LET rows == RowsIn(idx, lo, hi)
    IN  IF rows = {} THEN << >>
        ELSE LET r0 == CHOOSE i \in rows : \A j \in rows : i <= j
             IN  [k \in 1..Cardinality(rows) |-> r0 + k - 1]

-----------------------------------------------------------------------------
(* The curve fit.                                                          *)

\* f (x, a, b) = a * exp (b * x).  The growth rate b is carried as the
\* factor g = exp (b), so that f is a * g^x.
F(x, a, g) == Mul(a, Pow(g, x))

\* start_date = pd.to_datetime (HUMP_DAY) + offset
StartDate(m) == HUMP_DAY + Offset(m)

\* xdata: (df[start_date:end_date].index - start_date).days
FitX(idx, start, cutoff) ==
    LET rs == RowSeq(idx, start, cutoff)
    IN  [k \in 1..Len(rs) |-> idx[rs[k]] - start]

\* ydata: df.loc[start_date:end_date, (field, 'stable')]
FitY(idx, stable, start, cutoff) ==
    LET rs == RowSeq(idx, start, cutoff)
    IN  [k \in 1..Len(rs) |-> stable[rs[k]]]

\* curve_fit (check_finite = True) raises ValueError on empty ydata and on
\* ydata holding NaN or inf.
CurveFitRaises(y) == y = << >> \/ \E k \in 1..Len(y) : ~Finite(y[k])

\* A faulty variant of FitColumn: the model is stored for the fit window only.
FitColumnWindow(idx, start, p) ==
    [i \in 1..Len(idx) |->
        IF idx[i] >= start /\ idx[i] <= end_date
        THEN F(idx[i] - start, p.a, p.g) ELSE NaN]

\* df.loc[start_date:, (field, 'fit')] = f ((df[start_date:].index - start_date).days, *popt)
FitColumn(idx, start, p) ==
    [i \in 1..Len(idx) |->
        IF idx[i] >= start THEN F(idx[i] - start, p.a, p.g) ELSE NaN]

\* What curve_fit may return within bounds = ([0, -5], [1000, 5]): the
\* solver is a library, its result is a choice among these.
Popts ==
    { [a |-> Num(2), g |-> Rat(1, 2)],
      [a |-> Num(1), g |-> Num(2)],
      [a |-> Num(3), g |-> Num(1)] }

-----------------------------------------------------------------------------
(* The responses the service may give.                                     *)

\* first day of the response that starts latest
FirstDay == 29

\* how many earlier first days are tried
FirstSpread == 2

\* longest response, in records
MaxLen == 25

\* a response spanning fewer days than UNSTABLE_DAYS
ShortLen == 5

\* the record after which one calendar day is missing
GapRow == 12

\* the record that is reported twice
DupRow == 2

\* the record that lacks a metric field
BadRow == 3

\* number of count patterns
MaxSeed == 3

Shape(s, i) ==
    CASE s = 0 -> 0
      [] s = 1 -> i % 3
      [] s = 2 -> IF i <= 10 THEN i ELSE IF i <= 20 THEN 20 - i ELSE 0
      [] OTHER -> (i * s) % 5

Attr(d, s, i) ==
    [ Statistikdatum        |-> d,
      Totalt_antal_fall     |-> Shape(s % (MaxSeed + 1), i),
      Antal_intensivvardade |-> Shape((s + 1) % (MaxSeed + 1), i),
      Antal_avlidna         |-> Shape((s + 2) % (MaxSeed + 1), i) ]

\* n records in ascending date order ('orderByFields': 'Statistikdatum asc'),
\* one per day from `first`, with one day missing after record `gap` (0: no
\* gap), record `dup` reported a second time with revised counts (0: none),
\* and record `bad` lacking a field (0: none).
MakeRecords(first, n, gap, dup, bad, s) ==
    LET date(i) == first + (i - 1) + (IF gap # 0 /\ i > gap THEN 1 ELSE 0)
        base == [i \in 1..n |-> Attr(date(i), s, i)]
        dupd == IF dup = 0 \/ dup > n THEN base
                ELSE SubSeq(base, 1, dup)
                     \o << Attr(date(dup), s, dup + 1) >>
                     \o SubSeq(base, dup + 1, n)
    IN  [i \in 1..Len(dupd) |->
            IF bad # 0 /\ i = bad
            THEN [ Statistikdatum |-> dupd[i].Statistikdatum,
                   Totalt_antal_fall |-> dupd[i].Totalt_antal_fall,
                   Antal_intensivvardade |-> dupd[i].Antal_intensivvardade ]
            ELSE dupd[i]]

Lengths == {0, ShortLen} \cup ((MaxLen - 2)..MaxLen)

Responses ==
    { MakeRecords(first, n, gap, dup, bad, s) :
        first \in (FirstDay - FirstSpread)..FirstDay,
        n \in Lengths,
        gap \in {0, GapRow},
        dup \in {0, DupRow},
        bad \in {0, BadRow},
        s \in 0..MaxSeed }

\* Inputs of the smoothing check: gap-free responses with free counts.
MaxWindow == 7

MaxSmoothLen == 6

MaxVal == 1

OddWindows == {w \in 1..MaxWindow : w % 2 = 1}

SmoothRecords(n, v) ==
    [i \in 1..n |->
        [ Statistikdatum        |-> FirstDay + i - 1,
          Totalt_antal_fall     |-> v[i],
          Antal_intensivvardade |-> v[n + 1 - i],
          Antal_avlidna         |-> MaxVal - v[i] ]]

-----------------------------------------------------------------------------
(* The run.                                                                *)

NoCols == [c \in Levels |-> << >>]

InitWith(W) ==
    /\ pc = "start"
    /\ requests = 0
    /\ response = << >>
    /\ roll_days = W
    /\ index = << >>
    /\ df = [m \in MetricSet |-> NoCols]
    /\ end_date = 0
    /\ popt = << >>
    /\ fit_in = << >>
    /\ col_max = << >>
    /\ err = "none"
    /\ image = FALSE

Init == InitWith(ROLL_DAYS)

\* A faulty variant of Fail: the exception is caught and the script goes on.
FailSwallowed(e) ==
    /\ pc' = pc
    /\ err' = e

\* An uncaught exception ends the script.
Fail(e) ==
    /\ pc' = "error"
    /\ err' = e

\* lines 126-149: requests.get succeeds and raise_for_status passes
RequestReturns(recs) ==
    /\ pc = "start"
    /\ requests' = requests + 1
    /\ response' = recs
    /\ pc' = "fetched"
    /\ UNCHANGED <<roll_days, index, df, end_date, popt, fit_in, col_max, err, image>>

RequestOk == \E recs \in Responses : RequestReturns(recs)

\* lines 126-149: requests.get raises, or raise_for_status raises HTTPError
RequestFails ==
    /\ pc = "start"
    /\ requests' = requests + 1
    /\ Fail("RequestException")
    /\ UNCHANGED <<response, roll_days, index, df, end_date, popt, fit_in, col_max, image>>

HasFields(a) == \A m \in MetricSet : Json(m) \in DOMAIN a

\* One row per record, in input order: index = the records' dates, the raw
\* column of a metric = the records' values of its json attribute.
IngestIndex(recs) == [i \in 1..Len(recs) |-> recs[i].Statistikdatum]

\* A faulty variant of IngestRaw: a row takes the values of the last record of its date.
IngestRawLast(recs, m) ==
    [i \in 1..Len(recs) |->
        LET last == CHOOSE k \in 1..Len(recs) :
                        /\ recs[k].Statistikdatum = recs[i].Statistikdatum
                        /\ \A l \in 1..Len(recs) :
                             recs[l].Statistikdatum = recs[i].Statistikdatum => l <= k
        IN  Num(recs[last][Json(m)])]

IngestRaw(recs, m) == [i \in 1..Len(recs) |-> Num(recs[i][Json(m)])]

\* lines 152-161
Ingest ==
    /\ pc = "fetched"
    /\ \A i \in 1..Len(response) : HasFields(response[i])
    /\ index' = IngestIndex(response)
    /\ df' = [m \in MetricSet |-> [NoCols EXCEPT !.raw = IngestRaw(response, m)]]
    /\ pc' = "ingested"
    /\ UNCHANGED <<requests, response, roll_days, end_date, popt, fit_in, col_max, err, image>>

\* line 154: operator.itemgetter raises KeyError on a record lacking a field
IngestMissingField ==
    /\ pc = "fetched"
    /\ \E i \in 1..Len(response) : ~HasFields(response[i])
    /\ Fail("KeyError")
    /\ UNCHANGED <<requests, response, roll_days, index, df, end_date, popt, fit_in, col_max, image>>

\* end_date = df.index[-1] - pd.Timedelta (UNSTABLE_DAYS, 'days')
Cutoff(idx) == idx[Len(idx)] - UNSTABLE_DAYS

DerivedCols(idx, cols, W) ==
    LET roll == Rolling(cols.raw, W)
    IN  [cols EXCEPT !.roll     = roll,
                     !.stable   = StableCol(idx, roll, Cutoff(idx)),
                     !.unstable = UnstableCol(idx, roll, Cutoff(idx))]

CanDerive(idx) ==
    /\ CanAssign(idx, RowsIn(idx, idx[1], Cutoff(idx)))
    /\ CanAssign(idx, RowsIn(idx, Cutoff(idx), idx[Len(idx)]))

\* lines 163-168
Derive ==
    /\ pc = "ingested"
    /\ Len(index) > 0
    /\ CanDerive(index)
    /\ end_date' = Cutoff(index)
    /\ df' = [m \in MetricSet |-> DerivedCols(index, df[m], roll_days)]
    /\ pc' = "plot"
    /\ UNCHANGED <<requests, response, roll_days, index, popt, fit_in, col_max, err, image>>

\* line 163: df.index[-1] raises IndexError on an empty table
DeriveEmpty ==
    /\ pc = "ingested"
    /\ Len(index) = 0
    /\ Fail("IndexError")
    /\ UNCHANGED <<requests, response, roll_days, index, df, end_date, popt, fit_in, col_max, image>>

\* lines 167-168: the column assignment cannot reindex a slice that holds a
\* date twice
DeriveDuplicate ==
    /\ pc = "ingested"
    /\ Len(index) > 0
    /\ ~CanDerive(index)
    /\ Fail("ValueError")
    /\ UNCHANGED <<requests, response, roll_days, index, df, end_date, popt, fit_in, col_max, image>>

With(f, m, v) == [x \in DOMAIN f \cup {m} |-> IF x = m THEN v ELSE f[x]]

NextMetric(done) == Metrics[Cardinality(done) + 1]

\* A faulty variant of PlotsDone: the overlay starts after the first plot.
PlotsStarted == DOMAIN popt # {}

\* lines 279-280 then 287: the overlay loop starts when the plot loop is over
PlotsDone == DOMAIN popt = MetricSet

FitInput(m) ==
    [ x |-> FitX(index, StartDate(m), end_date),
      y |-> FitY(index, df[m].stable, StartDate(m), end_date) ]

\* plot (field, data) with fit_data returning popt
PlotOk ==
    /\ pc = "plot"
    /\ ~PlotsDone
    /\ LET m == NextMetric(DOMAIN popt)
       IN  /\ ~CurveFitRaises(FitInput(m).y)
           /\ \E p \in Popts :
                /\ popt' = With(popt, m, p)
                /\ df' = [df EXCEPT ![m].fit = FitColumn(index, StartDate(m), p)]
           /\ fit_in' = With(fit_in, m, FitInput(m))
    /\ UNCHANGED <<pc, requests, response, roll_days, index, end_date, col_max, err, image>>

\* curve_fit raises ValueError: no row in the fit window, or NaN in it
PlotFitRaises ==
    /\ pc = "plot"
    /\ ~PlotsDone
    /\ CurveFitRaises(FitInput(NextMetric(DOMAIN popt)).y)
    /\ Fail("ValueError")
    /\ UNCHANGED <<requests, response, roll_days, index, df, end_date, popt, fit_in, col_max, image>>

\* curve_fit raises RuntimeError: optimal parameters not found
PlotFitDiverges ==
    /\ pc = "plot"
    /\ ~PlotsDone
    /\ ~CurveFitRaises(FitInput(NextMetric(DOMAIN popt)).y)
    /\ Fail("RuntimeError")
    /\ UNCHANGED <<requests, response, roll_days, index, df, end_date, popt, fit_in, col_max, image>>

\* A faulty variant of OverlayCols: the rolling column is normalized in place too.
OverlayColsRoll(cols, m) ==
    LET peak == Max(cols.roll)
    IN  [cols EXCEPT
            !.roll     = Normalize(cols.roll, peak),
            !.stable   = Shift(Normalize(cols.stable, peak), Offset(m)),
            !.unstable = Shift(Normalize(cols.unstable, peak), Offset(m))]

\* lines 289-293 for one metric: both columns are divided by the peak of
\* the rolling column, then shifted by the metric's offset.
OverlayCols(cols, m) ==
    LET peak == Max(cols.roll)
    IN  [cols EXCEPT
            !.stable   = Shift(Normalize(cols.stable, peak), Offset(m)),
            !.unstable = Shift(Normalize(cols.unstable, peak), Offset(m))]

\* lines 287-306, one pass of the loop
Overlay ==
    /\ pc = "plot"
    /\ PlotsDone
    /\ DOMAIN col_max # MetricSet
    /\ LET m == NextMetric(DOMAIN col_max)
       IN  /\ col_max' = With(col_max, m, Max(df[m].roll))
           /\ df' = [df EXCEPT ![m] = OverlayCols(df[m], m)]
    /\ UNCHANGED <<pc, requests, response, roll_days, index, end_date, popt, fit_in, err, image>>

\* line 324
Save ==
    /\ pc = "plot"
    /\ PlotsDone
    /\ DOMAIN col_max = MetricSet
    /\ image' = TRUE
    /\ pc' = "done"
    /\ UNCHANGED <<requests, response, roll_days, index, df, end_date, popt, fit_in, col_max, err>>

Next ==
    \/ RequestOk
    \/ RequestFails
    \/ Ingest
    \/ IngestMissingField
    \/ Derive
    \/ DeriveEmpty
    \/ DeriveDuplicate
    \/ PlotOk
    \/ PlotFitRaises
    \/ PlotFitDiverges
    \/ Overlay
    \/ Save

Spec == Init /\ [][Next]_vars

(* The smoothing stage alone, for every odd window and every short series. *)

InitSmooth == \E W \in OddWindows : InitWith(W)

RequestSmooth ==
    \E n \in 0..MaxSmoothLen : \E v \in [1..n -> 0..MaxVal] :
        RequestReturns(SmoothRecords(n, v))

NextSmooth ==
    \/ RequestSmooth
    \/ Ingest
    \/ Derive
    \/ DeriveEmpty

SpecSmooth == InitSmooth /\ [][NextSmooth]_vars

-----------------------------------------------------------------------------
(* Vocabulary of the properties.                                           *)

Rows == 1..Len(index)

\* the table has been built from the response
Ingested ==
    \/ pc \in {"ingested", "plot", "done"}
    \/ pc = "error" /\ err \notin {"RequestException", "KeyError"}

\* the derived columns of every metric have been computed
Derived == \A m \in MetricSet : df[m].roll # << >>

\* the value a row of the stable / unstable column got when it was derived
First(m, c, i) ==
    IF c = "stable"
    THEN (IF index[i] <= end_date THEN df[m].roll[i] ELSE NaN)
    ELSE (IF index[i] >= end_date THEN df[m].roll[i] ELSE NaN)

RECURSIVE SumOver(_, _)
SumOver(s, rows) ==
    IF rows = {} THEN Num(0)
    ELSE LET i == CHOOSE r \in rows : TRUE
         IN  Add(s[i], SumOver(s, rows \ {i}))

\* the inverse of the alignment: re-scale by the peak, shift forward by lag
Unalign(s, peak, lag) ==
    [i \in 1..Len(s) |-> IF i > lag THEN Mul(s[i - lag], peak) ELSE NaN]

-----------------------------------------------------------------------------
(* C1 *)

\* C1: for every odd window W and every gap-free series, the rolling value
\* at date d is defined exactly when the closed window [d - W/2, d + W/2]
\* lies inside the data, and is then the mean of the raw values dated in
\* that window; so a series of at least W rows has exactly floor(W/2)
\* undefined values at each end and a shorter one is undefined throughout.
SmoothIsCenteredMean ==
    \A m \in MetricSet :
        df[m].roll # << >> =>
            LET n == Len(index)
                W == roll_days
                h == W \div 2
                inside(i) == index[1] <= index[i] - h /\ index[i] + h <= index[n]
                window(i) == {j \in Rows : index[i] - h <= index[j] /\ index[j] <= index[i] + h}
                undef == {i \in Rows : ~Finite(df[m].roll[i])}
            IN  /\ \A i \in Rows :
                    /\ Finite(df[m].roll[i]) <=> inside(i)
                    /\ inside(i) =>
                         df[m].roll[i] = Div(SumOver(df[m].raw, window(i)), Num(W))
                /\ n >= W => undef = (1..h) \cup ((n - h + 1)..n)
                /\ n < W => undef = Rows

SmoothWitness ==
    /\ pc = "plot"
    /\ roll_days = 5
    /\ Len(index) = 6
    /\ IsNaN(df["pos"].roll[2]) /\ IsNaN(df["pos"].roll[5])
    /\ df["pos"].roll[3] = Rat(3, 5)
    /\ df["pos"].roll[4] = Rat(2, 5)
    /\ df["pos"].raw[3] = Num(1)

-----------------------------------------------------------------------------
(* C2 *)

\* C2: the alignment maps each stable or unstable value v observed on day d
\* to v / peak labelled with day d - lag, whatever the date index (missing
\* calendar days included), peak being the maximum of the rolling column.
AlignMovesByDays ==
    \A m \in DOMAIN col_max : \A c \in {"stable", "unstable"} : \A i \in Rows :
        (Finite(First(m, c, i)) /\ index[i] - Offset(m) >= index[1]) =>
            \E j \in Rows :
                /\ index[j] = index[i] - Offset(m)
                /\ df[m][c][j] = Div(First(m, c, i), Max(df[m].roll))

-----------------------------------------------------------------------------
(* C3 *)

\* C3 as stated: align, then re-scale by the peak and shift forward by the
\* lag, reproduces the original column at every date.
RoundTripEverywhere ==
    \A m \in DOMAIN col_max : \A c \in {"stable", "unstable"} : \A i \in Rows :
        Unalign(df[m][c], col_max[m], Offset(m))[i] = First(m, c, i)

\* C3 amended: the round trip reproduces the original value at every row
\* after the first lag rows when the peak is not zero; the first lag rows
\* come back undefined (their values were shifted out of the table), and
\* with a zero peak every row comes back undefined.
RoundTripAfterLag ==
    \A m \in DOMAIN col_max : \A c \in {"stable", "unstable"} : \A i \in Rows :
        LET back == Unalign(df[m][c], col_max[m], Offset(m))[i]
        IN  IF i <= Offset(m) \/ col_max[m] = Num(0)
            THEN IsNaN(back)
            ELSE back = First(m, c, i)

RoundTripWitness ==
    /\ "pos" \in DOMAIN col_max
    /\ col_max["pos"] # Num(0)
    /\ \E i \in Rows : i <= Offset("pos") /\ Finite(First("pos", "stable", i))
    /\ \E i \in Rows : /\ i > Offset("pos")
                       /\ Finite(First("pos", "stable", i))
                       /\ First("pos", "stable", i) # Num(0)
                       /\ df["pos"].stable[i - Offset("pos")] # First("pos", "stable", i)

-----------------------------------------------------------------------------
(* C4 *)

\* C4 as stated: until the overlay, a rolling value is in stable only
\* before the cutoff and in unstable only at or after it, and every rolling
\* value is in exactly one of the two columns.
StableEndsBeforeCutoff ==
    \A m \in MetricSet \ DOMAIN col_max :
        Derived =>
            \A i \in Rows :
                /\ Finite(df[m].stable[i]) => index[i] < end_date
                /\ Finite(df[m].unstable[i]) => index[i] >= end_date
                /\ Finite(df[m].roll[i]) =>
                     (Finite(df[m].stable[i]) # Finite(df[m].unstable[i]))

\* C4 amended: until the overlay rewrites them, stable holds the rolling
\* value of exactly the dates up to and including the cutoff and unstable
\* that of exactly the dates from the cutoff (included) on; every rolling
\* value is in at least one column and that of the cutoff date is in both.
StableIncludesCutoff ==
    \A m \in MetricSet \ DOMAIN col_max :
        Derived =>
            \A i \in Rows :
                /\ df[m].stable[i] = (IF index[i] <= end_date THEN df[m].roll[i] ELSE NaN)
                /\ df[m].unstable[i] = (IF index[i] >= end_date THEN df[m].roll[i] ELSE NaN)
                /\ Finite(df[m].roll[i]) =>
                     (Finite(df[m].stable[i]) \/ Finite(df[m].unstable[i]))
                /\ (Finite(df[m].roll[i]) /\ index[i] = end_date) =>
                     (Finite(df[m].stable[i]) /\ Finite(df[m].unstable[i]))

CutoffWitness ==
    /\ Derived
    /\ col_max = << >>
    /\ \E i \in Rows :
        /\ index[i] = end_date
        /\ Finite(df["icu"].roll[i])
        /\ df["icu"].stable[i] = df["icu"].roll[i]
        /\ df["icu"].unstable[i] = df["icu"].roll[i]

-----------------------------------------------------------------------------
(* C5 *)

\* C5 as stated: every column, once computed, keeps its values in every
\* later step.
ColumnsWriteOnce ==
    [][\A m \in MetricSet : \A c \in Levels :
            df[m][c] # << >> => df'[m][c] = df[m][c]]_vars

\* C5 amended: raw, roll and fit are write-once; stable and unstable keep
\* their first values through every plotting step and are rewritten exactly
\* once, by the overlay step of their own metric.
OnlyOverlayRewrites ==
    [][\A m \in MetricSet :
            /\ \A c \in {"raw", "roll", "fit"} :
                 df[m][c] # << >> => df'[m][c] = df[m][c]
            /\ \A c \in {"stable", "unstable"} :
                 (df[m][c] # << >> /\ df'[m][c] # df[m][c]) =>
                     /\ DOMAIN popt = MetricSet
                     /\ m \notin DOMAIN col_max
                     /\ m \in DOMAIN col_max']_vars

RewriteWitness ==
    /\ "pos" \in DOMAIN col_max
    /\ \E i \in Rows : df["pos"].stable[i] # First("pos", "stable", i)
    /\ \E i \in Rows : Finite(df["pos"].fit[i])

-----------------------------------------------------------------------------
(* C6 *)

\* C6 as stated: after ingest no two rows carry the same date, and the row
\* of a date carries the values of the last record with that date.
LastRecordWins ==
    Ingested =>
        /\ \A i, j \in Rows : index[i] = index[j] => i = j
        /\ \A k \in 1..Len(response) :
             (\A l \in (k + 1)..Len(response) :
                  response[l].Statistikdatum # response[k].Statistikdatum) =>
                 \E i \in Rows :
                     /\ index[i] = response[k].Statistikdatum
                     /\ \A m \in MetricSet : df[m].raw[i] = Num(response[k][Json(m)])

\* C6 amended: after ingest the table holds one row per record, in input
\* order, each with its record's date and values; two records with the same
\* date give two rows and neither is dropped.
EveryRecordKept ==
    Ingested =>
        /\ Len(index) = Len(response)
        /\ \A m \in MetricSet : Len(df[m].raw) = Len(response)
        /\ \A i \in 1..Len(response) :
             /\ index[i] = response[i].Statistikdatum
             /\ \A m \in MetricSet : df[m].raw[i] = Num(response[i][Json(m)])

DuplicateWitness ==
    /\ Ingested
    /\ \E i \in Rows : \E j \in Rows :
         /\ i < j
         /\ index[i] = index[j]
         /\ df["pos"].raw[i] # df["pos"].raw[j]

-----------------------------------------------------------------------------
(* C7 *)

\* C7: the alignment fails with DegenerateSeries when the peak is zero or
\* undefined: no metric is ever normalized by such a peak.
DegeneratePeakRejected ==
    \A m \in DOMAIN col_max : Finite(col_max[m]) /\ col_max[m] # Num(0)

-----------------------------------------------------------------------------
(* C8 *)

\* C8: after a metric's fit the fit column holds a * exp (b * t), t = whole
\* days since startDate = hump_day + lag, on every date from startDate on
\* (also past the cutoff) and is undefined on every earlier date.
FitCoversFromStart ==
    \A m \in DOMAIN popt : \A i \in Rows :
        LET t == index[i] - (HUMP_DAY + Offset(m))
        IN  IF t >= 0
            THEN df[m].fit[i] = Mul(popt[m].a, Pow(popt[m].g, t))
            ELSE IsNaN(df[m].fit[i])

FitWitness ==
    /\ "icu" \in DOMAIN popt
    /\ popt["icu"].g = Num(2)
    /\ \E i \in Rows : index[i] < StartDate("icu") /\ IsNaN(df["icu"].fit[i])
    /\ \E i \in Rows : index[i] > end_date /\ df["icu"].fit[i] # Num(1)
                        /\ Finite(df["icu"].fit[i])
    /\ \E i \in Rows : i > 1 /\ index[i] > index[i - 1] + 1

-----------------------------------------------------------------------------
(* C9 *)

\* C9: one request per run and no retry; a failure of any step ends the
\* run in an error state that is never left and in which the image is never
\* written; the image is written only after the three plots and the three
\* overlay passes.
RunIsOneShot ==
    /\ [](/\ requests <= 1
          /\ pc # "start" => requests = 1
          /\ (err # "none") <=> (pc = "error")
          /\ pc = "error" => ~image
          /\ image => /\ pc = "done"
                      /\ DOMAIN popt = MetricSet
                      /\ DOMAIN col_max = MetricSet)
    /\ [][/\ pc = "error" => (pc' = "error" /\ ~image' /\ requests' = requests)
          /\ requests' # requests => pc = "start"]_vars

AbortWitness ==
    /\ pc = "error"
    /\ err = "RuntimeError"
    /\ DOMAIN popt = {"pos", "icu"}
    /\ requests = 1
    /\ ~image

-----------------------------------------------------------------------------
(* C10 *)

\* C10: every fit runs before the overlay touches any stable column: when
\* fit_data runs for a metric its stable column is the unnormalized,
\* unshifted rolling column up to the cutoff, and the fit input is exactly
\* those values on the dates in [hump_day + lag, cutoff].
FitPrecedesOverlay ==
    /\ [](/\ DOMAIN col_max # {} => DOMAIN popt = MetricSet
          /\ \A m \in DOMAIN fit_in :
               LET win  == {i \in Rows : HUMP_DAY + Offset(m) <= index[i] /\ index[i] <= end_date}
                   nth(k) == CHOOSE i \in win : Cardinality({j \in win : j <= i}) = k
               IN  /\ Len(fit_in[m].x) = Cardinality(win)
                   /\ Len(fit_in[m].y) = Cardinality(win)
                   /\ \A k \in 1..Cardinality(win) :
                        /\ fit_in[m].y[k] = df[m].roll[nth(k)]
                        /\ fit_in[m].x[k] = index[nth(k)] - (HUMP_DAY + Offset(m)))
    /\ [][\A m \in MetricSet :
            (m \notin DOMAIN popt /\ m \in DOMAIN popt') =>
                /\ col_max = << >>
                /\ \A i \in Rows : df[m].stable[i] = First(m, "stable", i)]_vars

FitInputWitness ==
    /\ DOMAIN fit_in = MetricSet
    /\ Len(fit_in["died"].y) = 2
    /\ fit_in["died"].y[1] # fit_in["died"].y[2]
    /\ "pos" \in DOMAIN col_max

=============================================================================
